---- MODULE Spec2Model ----
(***************************************************************************)
(* A model of the smd_inventory Ansible inventory plugin                   *)
(* (src/smd_inventory.py): one parse run reads its options, consults the   *)
(* inventory cache, queries the smd endpoints State/Components and         *)
(* memberships, merges the two answers and populates the Ansible           *)
(* inventory.                                                              *)
(*                                                                         *)
(* JSON values are tagged records [type, val]; a JSON object's val is a    *)
(* function from field names to values, a JSON array's val a sequence.     *)
(* Component and membership records (always JSON objects here) are plain   *)
(* functions from field names to values.  Python exceptions are records    *)
(* [class, raised, detail].                                                *)
(***************************************************************************)
EXTENDS Integers, Sequences, FiniteSets, TLC

VARIABLES
    pc,                    \* where the run is: idle, get_inventory, memberships, populate, done, failed
    _cache,                \* self._cache: cache key -> cached inventory, or None (no entry)
    opts,                  \* the options and arguments of the current parse run
    attempt_to_read_cache, \* parse's local, line 128
    cache_needs_update,    \* parse's local, lines 129 and 137
    requests,              \* the requests.get calls issued in this run, in order
    response,              \* get_inventory's local: the decoded State/Components answer
    memberships,           \* get_inventory's local: the decoded memberships answer
    components,            \* get_inventory's local: ID -> record
    inventory,             \* parse's local: the inventory read from the cache or retrieved
    ops,                   \* the calls issued on self.inventory in this run, in order
    err,                   \* the exception that ended the run, or NoError
    cache_reads,           \* number of self._cache[cache_key] reads in this run
    cache_writes,          \* number of self._cache[cache_key] = ... writes in this run
    cache_at_start         \* the cache as it was when the run began

vars == <<pc, _cache, opts, attempt_to_read_cache, cache_needs_update, requests,
          response, memberships, components, inventory, ops, err,
          cache_reads, cache_writes, cache_at_start>>

----------------------------------------------------------------------------
(* Bounds of the get_inventory specification *)

MaxComponents == 2
MaxMemberships == 2

----------------------------------------------------------------------------
(* Values *)

None == [type |-> "none", val |-> 0]

JObject(f) == [type |-> "object", val |-> f]
JArray(s) == [type |-> "array", val |-> s]
JScalar == [type |-> "scalar", val |-> 0]

Range(s) == {s[i] : i \in 1..Len(s)}

SeqsUpTo(S, n) == UNION {[1..k -> S] : k \in 0..n}

\* Components the directory service may list.  Two share the ID x1; one has
\* no ID; one carries a field (partitionName) that its membership record
\* carries too.
Comp_x1 == [ID |-> "x1", NID |-> 7]
Comp_x1_again == [ID |-> "x1", NID |-> 8]
Comp_x2 == [ID |-> "x2", NID |-> 1234567, partitionName |-> "old"]
Comp_noID == [NID |-> 5]

ComponentRecords == {Comp_x1, Comp_x1_again, Comp_x2, Comp_noID}

\* Membership records the directory service may list.  Two share the id x1;
\* x3 is the ID of no component; two lack an expected field.
Mem_x1 == [id |-> "x1", partitionName |-> "p0", groupLabels |-> <<"g1">>]
Mem_x1_empty == [id |-> "x1", partitionName |-> "", groupLabels |-> <<>>]
Mem_x2 == [id |-> "x2", partitionName |-> "p1", groupLabels |-> <<"g1", "g2">>]
Mem_x3 == [id |-> "x3", partitionName |-> "p0", groupLabels |-> <<"g2">>]
Mem_noPartition == [id |-> "x1", groupLabels |-> <<"g1">>]
Mem_noId == [partitionName |-> "p0", groupLabels |-> <<>>]

MembershipRecords == {Mem_x1, Mem_x1_empty, Mem_x2, Mem_x3, Mem_noPartition, Mem_noId}

\* A JSON object that is no inventory answer, such as an error body.
ErrorBody == JObject([detail |-> "unauthorized"])

----------------------------------------------------------------------------
(* Exceptions and call outcomes *)

Exception(class, raised, detail) == [class |-> class, raised |-> raised, detail |-> detail]

NoError == Exception("none", "", <<>>)

\* requests.get raising before any response exists (connection refused, ...)
TransportError == Exception("requests.ConnectionError", "get_smd", <<>>)

\* AnsibleParserError of get_smd: status code, reason phrase and URL
QueryError(status, reason, url) ==
    Exception("AnsibleParserError", "get_smd", <<status, reason, url>>)

ComponentFormatError ==
    Exception("AnsibleParserError", "get_inventory",
              <<"smd component response does not match expected format">>)

MembershipFormatError ==
    Exception("AnsibleParserError", "get_inventory",
              <<"smd membership response does not match expected format">>)

GroupError == Exception("AnsibleParserError", "populate", <<"Unable to add a group">>)

TypeError(raised) == Exception("TypeError", raised, <<>>)

\* The outcome of a call: a returned value, or an exception
Return(v) == [exc |-> NoError, value |-> v]
Raise(e) == [exc |-> e, value |-> None]
Raised(out) == out.exc # NoError

----------------------------------------------------------------------------
(* get_smd *)

\* What the directory service does with one GET: no response at all, or a
\* response with a status, a reason and a body that is JSON or not.
NoResponse == [responded |-> FALSE, status |-> 0, reason |-> "", json |-> FALSE, body |-> None]
HttpResponse(status, reason, json, body) ==
    [responded |-> TRUE, status |-> status, reason |-> reason, json |-> json, body |-> body]

Url(host, endpoint) == <<"https://", host, "/hsm/v2/", endpoint>>

Headers(access_token) ==
    IF access_token # "" THEN <<"Authorization", "Bearer", access_token>> ELSE <<>>

DefaultFilter == [type |-> "Node", role |-> "Compute", state |-> "Ready"]

\* Faulty variant of SmdRequest: the documented default filter is sent
\* whatever filter_by is configured.
SmdRequestWithDefaultFilter(host, endpoint, params, access_token) ==
    [url |-> Url(host, endpoint), params |-> DefaultFilter, headers |-> Headers(access_token)]

\* Lines 232-236: the GET that get_smd issues
SmdRequest(host, endpoint, params, access_token) ==
    [url |-> Url(host, endpoint), params |-> params, headers |-> Headers(access_token)]

\* Lines 236-245.  requests.get is outside the try: a transport failure
\* leaves get_smd as requests' own exception.  r.json() on a body that is not
\* JSON raises requests.exceptions.JSONDecodeError, a RequestException, which
\* line 240 turns into AnsibleParserError.  The status is never looked at: a
\* 401 with a JSON body is returned like any other.
get_smd(host, endpoint, reply) ==
    IF ~reply.responded THEN Raise(TransportError)
    ELSE IF reply.json THEN Return(reply.body)
    ELSE Raise(QueryError(reply.status, reply.reason, Url(host, endpoint)))

\* The ways a GET can end without a JSON body
FailedReplies ==
    { NoResponse,
      HttpResponse(200, "OK", FALSE, None),
      HttpResponse(401, "Unauthorized", FALSE, None) }

JsonReplies(values) == {HttpResponse(200, "OK", TRUE, v) : v \in values}

\* The answers to GET State/Components and GET memberships: every list of
\* up to MaxComponents (MaxMemberships) records, and JSON of another shape.
ComponentReplies ==
    FailedReplies \cup {HttpResponse(401, "Unauthorized", TRUE, ErrorBody)}
    \cup JsonReplies({JObject([Components |-> s]) : s \in SeqsUpTo(ComponentRecords, MaxComponents)}
                     \cup {JArray(<<>>), JScalar})

MembershipReplies ==
    FailedReplies \cup {HttpResponse(401, "Unauthorized", TRUE, ErrorBody)}
    \cup JsonReplies({JArray(s) : s \in SeqsUpTo(MembershipRecords, MaxMemberships)}
                     \cup {JObject(<<>>), JScalar})

\* The answers a directory service gives in the parse specification: the
\* scenarios of the plugin's use and each kind of failure.
ScenarioComponentReplies ==
    FailedReplies \cup {HttpResponse(401, "Unauthorized", TRUE, ErrorBody)}
    \cup JsonReplies({JObject([Components |-> s]) :
                        s \in {<<>>, <<Comp_x1>>, <<Comp_x1, Comp_x2>>, <<Comp_noID>>}}
                     \cup {JArray(<<>>)})

ScenarioMembershipReplies ==
    FailedReplies \cup {HttpResponse(401, "Unauthorized", TRUE, ErrorBody)}
    \cup JsonReplies({JArray(s) :
                        s \in {<<>>, <<Mem_x1>>, <<Mem_x1_empty>>, <<Mem_x1, Mem_x2>>,
                               <<Mem_x1, Mem_x3>>, <<Mem_noPartition>>}}
                     \cup {JScalar})

----------------------------------------------------------------------------
(* get_inventory *)

\* {comp['ID']: comp for comp in response['Components']}
LastWithID(comps, id) ==
    comps[CHOOSE i \in 1..Len(comps) :
            /\ comps[i].ID = id
            /\ \A j \in (i+1)..Len(comps) : comps[j].ID # id]

IndexComponents(resp) ==
    IF resp.type # "object" THEN Raise(TypeError("get_inventory"))
    ELSE IF "Components" \notin DOMAIN resp.val THEN Raise(ComponentFormatError)
    ELSE LET comps == resp.val.Components IN
         IF \E i \in 1..Len(comps) : "ID" \notin DOMAIN comps[i]
         THEN Raise(ComponentFormatError)
         ELSE Return([id \in {comps[i].ID : i \in 1..Len(comps)} |-> LastWithID(comps, id)])

\* Faulty variant of Update: the record's own value is kept where both
\* have one.
UpdateKeepingOld(rec, comp) ==
    [f \in DOMAIN rec \cup DOMAIN comp |-> IF f \in DOMAIN rec THEN rec[f] ELSE comp[f]]

\* dict.update: the fields of both, the argument's value where both have one
Update(rec, comp) ==
    [f \in DOMAIN rec \cup DOMAIN comp |-> IF f \in DOMAIN comp THEN comp[f] ELSE rec[f]]

\* Faulty variant of AddPartition: the name is added without the test of
\* line 173.
AddPartitionAlways(parts, comp) == parts \cup {comp.partitionName}

\* Lines 173-174
AddPartition(parts, comp) ==
    IF comp.partitionName # "" THEN parts \cup {comp.partitionName} ELSE parts

\* Lines 175-176
AddGroups(grps, comp) ==
    IF comp.groupLabels # <<>> THEN grps \cup Range(comp.groupLabels) ELSE grps

\* Faulty variant of MergeOne: a membership record whose id is no key of
\* components is passed over.
MergeOneSkippingUnknown(acc, comp) ==
    IF "id" \notin DOMAIN comp \/ "partitionName" \notin DOMAIN comp
       \/ "groupLabels" \notin DOMAIN comp
    THEN Raise(MembershipFormatError)
    ELSE IF comp.id \notin DOMAIN acc.components THEN Return(acc)
    ELSE Return([components |-> [acc.components EXCEPT
                                   ![comp.id] = Update(acc.components[comp.id], comp)],
                 partitions |-> AddPartition(acc.partitions, comp),
                 groups |-> AddGroups(acc.groups, comp)])

\* One pass of the loop body, lines 172-176, on the membership record comp;
\* acc is [components, partitions, groups].  A KeyError (no 'id', an id that
\* is no key of components, no 'partitionName', no 'groupLabels') ends the
\* loop in line 178, after the updates made before it.
MergeOne(acc, comp) ==
    IF "id" \notin DOMAIN comp THEN Raise(MembershipFormatError)
    ELSE IF comp.id \notin DOMAIN acc.components THEN Raise(MembershipFormatError)
    ELSE LET merged == [acc.components EXCEPT
                           ![comp.id] = Update(acc.components[comp.id], comp)] IN
         IF "partitionName" \notin DOMAIN comp THEN Raise(MembershipFormatError)
         ELSE LET parts == AddPartition(acc.partitions, comp) IN
              IF "groupLabels" \notin DOMAIN comp THEN Raise(MembershipFormatError)
              ELSE Return([components |-> merged,
                           partitions |-> parts,
                           groups |-> AddGroups(acc.groups, comp)])

\* for comp in memberships, from the i-th record on
RECURSIVE MergeFrom(_, _, _)
MergeFrom(ms, i, acc) ==
    IF i > Len(ms) THEN Return(acc)
    ELSE LET out == MergeOne(acc, ms[i]) IN
         IF Raised(out) THEN out ELSE MergeFrom(ms, i + 1, out.value)

\* Lines 169-182 on the decoded memberships answer.  Iterating a non-empty
\* JSON object yields its keys, strings, and subscripting one with 'id' is a
\* TypeError; so is iterating a number or null.
MergeMemberships(comps, mems) ==
    LET start == [components |-> comps, partitions |-> {}, groups |-> {}] IN
    IF mems.type = "array" THEN MergeFrom(mems.val, 1, start)
    ELSE IF mems.type = "object" /\ DOMAIN mems.val = {} THEN Return(start)
    ELSE Raise(TypeError("get_inventory"))

\* return {'components': components, 'partitions': partitions, 'groups': groups}
get_inventory_result(comps, mems) == MergeMemberships(comps, mems)

----------------------------------------------------------------------------
(* populate *)

Orders(S) ==
    {s \in [1..Cardinality(S) -> S] : \A i, j \in DOMAIN s : s[i] = s[j] => i = j}

AddGroup(name, ok) == [op |-> "add_group", name |-> name, group |-> <<>>, ok |-> ok]

\* The add_group calls of lines 193-197, the partitions iterated in the
\* order po and the groups in the order go.
GroupCalls(po, go) ==
    [i \in 1..Len(po) |-> <<"prt_", po[i]>>] \o [i \in 1..Len(go) |-> <<"grp_", go[i]>>]

\* Faulty variant of PopulateGroups: a rejected add_group is passed over.
PopulateGroupsIgnoringRejection(names, k) ==
    [ops |-> [i \in 1..Len(names) |-> AddGroup(names[i], i # k + 1)],
     exc |-> NoError]

\* Lines 191-199 when the inventory accepts the first k calls: the calls
\* issued, and GroupError if one was rejected.
PopulateGroups(names, k) ==
    IF k >= Len(names)
    THEN [ops |-> [i \in 1..Len(names) |-> AddGroup(names[i], TRUE)], exc |-> NoError]
    ELSE [ops |-> [i \in 1..(k + 1) |-> AddGroup(names[i], i <= k)], exc |-> GroupError]

\* Lines 202-220.  Iterating the mapping yields its keys, and line 204
\* subscripts the first key, a string, with 'NID': a TypeError before any
\* add_host.  An empty mapping ends the loop at once.
PopulateHosts(comps) ==
    IF DOMAIN comps = {} THEN [ops |-> <<>>, exc |-> NoError]
    ELSE [ops |-> <<>>, exc |-> TypeError("populate")]

\* Line 204: 'nid' + str(component['NID']).zfill(nid_length), the decimal
\* digits of a natural number padded on the left with zeros, never cut
nid_length == 6

RECURSIVE Digits(_)
Digits(n) == IF n < 10 THEN <<n>> ELSE Append(Digits(n \div 10), n % 10)

zfill(s, width) ==
    IF Len(s) >= width THEN s ELSE [i \in 1..(width - Len(s)) |-> 0] \o s

NidName(nid) == <<"nid">> \o zfill(Digits(nid), nid_length)

\* populate(components, partitions, groups)
populate(inv, po, go, k) ==
    LET g == PopulateGroups(GroupCalls(po, go), k) IN
    IF g.exc # NoError THEN g
    ELSE LET h == PopulateHosts(inv.components) IN
         [ops |-> g.ops \o h.ops, exc |-> h.exc]

----------------------------------------------------------------------------
(* parse *)

CacheKeys == {"k1", "k2"}

FilterChoices == {DefaultFilter, [role |-> "Compute"]}

\* The options of the inventory source, the access token read from the
\* environment, the cache key of the source and parse's cache argument.
Options ==
    [smd_server : {"localhost:27779"},
     filter_by : FilterChoices,
     access_token : {"", "secret"},
     user_cache_setting : BOOLEAN,
     cache : BOOLEAN,
     cache_key : CacheKeys]

\* Faulty variant of AttemptToReadCache: the user's cache option is not
\* consulted.
AttemptToReadCacheIgnoringOption(user_cache_setting, cache) == cache

\* Lines 127-129
AttemptToReadCache(user_cache_setting, cache) == user_cache_setting /\ cache

CacheNeedsUpdate(user_cache_setting, cache) == user_cache_setting /\ ~cache

\* self._cache[cache_key] raises KeyError when there is no entry
CacheHit(store, key) == store[key] # None

\* Faulty variant of CacheWrite: the entry is written also when
\* get_inventory raised.
CacheWriteAlways(store, key, needs_update, out) ==
    IF needs_update THEN [store |-> [store EXCEPT ![key] = out.value], writes |-> 1]
    ELSE [store |-> store, writes |-> 0]

\* Lines 143-145, reached only when get_inventory returned: the store after
\* them and the number of writes made.
CacheWrite(store, key, needs_update, out) ==
    IF needs_update /\ ~Raised(out)
    THEN [store |-> [store EXCEPT ![key] = out.value], writes |-> 1]
    ELSE [store |-> store, writes |-> 0]

\* Lines 93-137: the options are read, the cache flags computed and the
\* cache read when it is to be.  The options are taken as set and filter_by
\* as valid JSON, so lines 119-123 are not reached.
parse(o) ==
    /\ pc \in {"idle", "done", "failed"}
    /\ LET attempt == AttemptToReadCache(o.user_cache_setting, o.cache)
           hit == attempt /\ CacheHit(_cache, o.cache_key)
           update == CacheNeedsUpdate(o.user_cache_setting, o.cache) \/ (attempt /\ ~hit)
       IN /\ opts' = o
          /\ attempt_to_read_cache' = attempt
          /\ cache_needs_update' = update
          /\ cache_reads' = IF attempt THEN 1 ELSE 0
          /\ inventory' = IF hit THEN _cache[o.cache_key] ELSE None
          /\ pc' = IF ~attempt \/ update THEN "get_inventory" ELSE "populate"
    /\ requests' = <<>>
    /\ response' = None
    /\ memberships' = None
    /\ components' = None
    /\ ops' = <<>>
    /\ err' = NoError
    /\ cache_writes' = 0
    /\ cache_at_start' = _cache
    /\ UNCHANGED _cache

\* Lines 157-163: the component query and the index by ID
GetComponents(replies) ==
    /\ pc = "get_inventory"
    /\ \E reply \in replies :
         LET got == get_smd(opts.smd_server, "State/Components", reply)
             out == IF Raised(got) THEN got ELSE IndexComponents(got.value)
         IN /\ requests' = Append(requests,
                                  SmdRequest(opts.smd_server, "State/Components",
                                             opts.filter_by, opts.access_token))
            /\ response' = got.value
            /\ components' = out.value
            /\ err' = out.exc
            /\ pc' = IF Raised(out) THEN "failed" ELSE "memberships"
    /\ UNCHANGED <<_cache, opts, attempt_to_read_cache, cache_needs_update, memberships,
                   inventory, ops, cache_reads, cache_writes, cache_at_start>>

\* Lines 166-182 and 143-145: the membership query, the merge, the return
\* and the cache update
GetMemberships(replies) ==
    /\ pc = "memberships"
    /\ \E reply \in replies :
         LET got == get_smd(opts.smd_server, "memberships", reply)
             out == IF Raised(got) THEN got ELSE get_inventory_result(components, got.value)
             written == CacheWrite(_cache, opts.cache_key, cache_needs_update, out)
         IN /\ requests' = Append(requests,
                                  SmdRequest(opts.smd_server, "memberships",
                                             opts.filter_by, opts.access_token))
            /\ memberships' = got.value
            /\ inventory' = out.value
            /\ _cache' = written.store
            /\ cache_writes' = written.writes
            /\ err' = out.exc
            /\ pc' = IF Raised(out) THEN "failed" ELSE "populate"
    /\ UNCHANGED <<opts, attempt_to_read_cache, cache_needs_update, response, components,
                   ops, cache_reads, cache_at_start>>

\* Lines 147-148 and 185-220: populate(**inventory)
Populate ==
    /\ pc = "populate"
    /\ \E po \in Orders(inventory.partitions), go \in Orders(inventory.groups) :
         \E k \in 0..(Len(po) + Len(go)) :
            LET out == populate(inventory, po, go, k)
            IN /\ ops' = out.ops
               /\ err' = out.exc
               /\ pc' = IF out.exc = NoError THEN "done" ELSE "failed"
    /\ UNCHANGED <<_cache, opts, attempt_to_read_cache, cache_needs_update, requests,
                   response, memberships, components, inventory, cache_reads,
                   cache_writes, cache_at_start>>

----------------------------------------------------------------------------
(* Specifications *)

DefaultOptions ==
    [smd_server |-> "localhost:27779",
     filter_by |-> DefaultFilter,
     access_token |-> "",
     user_cache_setting |-> FALSE,
     cache |-> TRUE,
     cache_key |-> "k1"]

\* The plugin object after __init__, with an empty cache
Init ==
    /\ pc = "idle"
    /\ _cache = [k \in CacheKeys |-> None]
    /\ opts = DefaultOptions
    /\ attempt_to_read_cache = FALSE
    /\ cache_needs_update = FALSE
    /\ requests = <<>>
    /\ response = None
    /\ memberships = None
    /\ components = None
    /\ inventory = None
    /\ ops = <<>>
    /\ err = NoError
    /\ cache_reads = 0
    /\ cache_writes = 0
    /\ cache_at_start = [k \in CacheKeys |-> None]

\* Parse runs, one after the other, sharing the cache
Next ==
    \/ \E o \in Options : parse(o)
    \/ GetComponents(ScenarioComponentReplies)
    \/ GetMemberships(ScenarioMembershipReplies)
    \/ Populate

Spec == Init /\ [][Next]_vars

\* One call of get_inventory, as parse makes it at line 141 when the cache
\* is off, on every answer of the directory service within the bounds
InitInventory ==
    /\ pc = "get_inventory"
    /\ _cache = [k \in CacheKeys |-> None]
    /\ opts \in {o \in Options : ~o.user_cache_setting /\ o.cache /\ o.cache_key = "k1"
                                  /\ o.access_token = ""}
    /\ attempt_to_read_cache = FALSE
    /\ cache_needs_update = FALSE
    /\ requests = <<>>
    /\ response = None
    /\ memberships = None
    /\ components = None
    /\ inventory = None
    /\ ops = <<>>
    /\ err = NoError
    /\ cache_reads = 0
    /\ cache_writes = 0
    /\ cache_at_start = [k \in CacheKeys |-> None]

NextInventory ==
    \/ GetComponents(ComponentReplies)
    \/ GetMemberships(MembershipReplies)

SpecInventory == InitInventory /\ [][NextInventory]_vars

----------------------------------------------------------------------------
(* Properties of get_inventory and get_smd, checked under SpecInventory *)

\* get_inventory returned: both queries were made and parse holds the result
Retrieved == inventory # None /\ Len(requests) = 2

\* The component and membership records the directory service listed
ListedComponents == response.val.Components
ListedMemberships == IF memberships.type = "array" THEN memberships.val ELSE <<>>

HasField(rec, f) == f \in DOMAIN rec

\* rec has exactly the fields of c and m, with m's value where both have one
IsUnionPreferring(rec, c, m) ==
    /\ DOMAIN rec = DOMAIN c \cup DOMAIN m
    /\ \A f \in DOMAIN m : rec[f] = m[f]
    /\ \A f \in DOMAIN c \ DOMAIN m : rec[f] = c[f]

\* C2 as stated: for every listed component and every listed membership
\* record with that component's ID, the record returned under the ID is the
\* union of the two, the membership's value winning.
C2_EveryPairMerged ==
    Retrieved =>
        \A i \in 1..Len(ListedComponents), j \in 1..Len(ListedMemberships) :
            ListedMemberships[j].id = ListedComponents[i].ID =>
                IsUnionPreferring(inventory.components[ListedComponents[i].ID],
                                  ListedComponents[i], ListedMemberships[j])

OnlyComponentWithItsID(i) ==
    \A k \in 1..Len(ListedComponents) :
        ListedComponents[k].ID = ListedComponents[i].ID => k = i

OnlyMembershipWithItsId(j) ==
    \A k \in 1..Len(ListedMemberships) :
        ListedMemberships[k].id = ListedMemberships[j].id => k = j

\* C2 amended: for every listed component that is the only one with its ID
\* and every listed membership record that is the only one with that id, the
\* record returned under the ID has exactly the fields of the two, with the
\* membership's value for every field both have.
C2_UniquePairMerged ==
    Retrieved =>
        \A i \in 1..Len(ListedComponents), j \in 1..Len(ListedMemberships) :
            /\ ListedMemberships[j].id = ListedComponents[i].ID
            /\ OnlyComponentWithItsID(i)
            /\ OnlyMembershipWithItsId(j)
            => IsUnionPreferring(inventory.components[ListedComponents[i].ID],
                                 ListedComponents[i], ListedMemberships[j])

\* A component and its one membership record, merged, the membership's
\* partitionName replacing the component's own
C2_Witness ==
    /\ Retrieved
    /\ ListedComponents = <<Comp_x1, Comp_x2>>
    /\ ListedMemberships = <<Mem_x2>>
    /\ inventory.components["x2"].partitionName = "p1"
    /\ inventory.components["x2"].NID = 1234567

PartitionNamesOf(recs) ==
    {r.partitionName : r \in {q \in recs : HasField(q, "partitionName") /\ q.partitionName # ""}}

GroupLabelsOf(recs) ==
    UNION {Range(r.groupLabels) : r \in {q \in recs : HasField(q, "groupLabels") /\ q.groupLabels # <<>>}}

ReturnedRecords == {inventory.components[id] : id \in DOMAIN inventory.components}

\* C3 as stated: partitions is the set of non-empty partitionName values of
\* the returned records and groups the union of their non-empty groupLabels.
C3_SetsOverReturnedRecords ==
    Retrieved =>
        /\ inventory.partitions = PartitionNamesOf(ReturnedRecords)
        /\ inventory.groups = GroupLabelsOf(ReturnedRecords)
        /\ "" \notin inventory.partitions

\* Every returned record that has a partitionName or groupLabels has them
\* from exactly one membership record
EachRecordMergedOnce ==
    \A id \in DOMAIN inventory.components :
        LET n == Cardinality({j \in 1..Len(ListedMemberships) : ListedMemberships[j].id = id})
            c == inventory.components[id]
        IN n = 1 \/ (n = 0 /\ ~HasField(c, "partitionName") /\ ~HasField(c, "groupLabels"))

\* C3 amended: partitions is the set of non-empty partitionName values of the
\* membership records of the memberships answer and groups the union of
\* their non-empty groupLabels (these are the values of the returned records
\* when each record has its partitionName and groupLabels from exactly one
\* membership record); the empty partition name is never in partitions.
C3_SetsOverMemberships ==
    Retrieved =>
        /\ inventory.partitions = PartitionNamesOf(Range(ListedMemberships))
        /\ inventory.groups = GroupLabelsOf(Range(ListedMemberships))
        /\ "" \notin inventory.partitions
        /\ EachRecordMergedOnce =>
              /\ inventory.partitions = PartitionNamesOf(ReturnedRecords)
              /\ inventory.groups = GroupLabelsOf(ReturnedRecords)

\* A record with an empty partitionName and no labels beside one with both
C3_Witness ==
    /\ Retrieved
    /\ ListedMemberships = <<Mem_x1_empty, Mem_x2>>
    /\ inventory.partitions = {"p1"}
    /\ inventory.groups = {"g1", "g2"}

\* The memberships answer is a list of complete records, one with an id that
\* is the ID of no listed component
UnknownMembershipId ==
    /\ memberships # None
    /\ memberships.type = "array"
    /\ \A j \in 1..Len(memberships.val) :
          /\ HasField(memberships.val[j], "id")
          /\ HasField(memberships.val[j], "partitionName")
          /\ HasField(memberships.val[j], "groupLabels")
    /\ \E j \in 1..Len(memberships.val) : memberships.val[j].id \notin DOMAIN components

\* The memberships answer is a list of records with known ids, one without an
\* expected field
MembershipFieldMissing ==
    /\ memberships # None
    /\ memberships.type = "array"
    /\ \A j \in 1..Len(memberships.val) :
          HasField(memberships.val[j], "id") => memberships.val[j].id \in DOMAIN components
    /\ \E j \in 1..Len(memberships.val) :
          \E f \in {"id", "partitionName", "groupLabels"} : ~HasField(memberships.val[j], f)

C5_NoComponentsIsFormatError ==
    (response # None /\ ~(response.type = "object" /\ HasField(response.val, "Components")))
        => /\ pc = "failed"
           /\ err = ComponentFormatError
           /\ Len(requests) = 1
           /\ inventory = None

\* C6: a get_smd call that does not return the decoded JSON fails with the
\* AnsibleParserError that carries status, reason and URL, also when no
\* response was received.
C6_QueryErrorOrJson ==
    (pc = "failed" /\ err.raised = "get_smd") =>
        /\ err.class = "AnsibleParserError"
        /\ Len(err.detail) = 3
        /\ err.detail[3] = requests[Len(requests)].url

----------------------------------------------------------------------------
(* Properties of parse and populate, checked under Spec *)

Key == opts.cache_key

\* The run is past get_inventory or the cache read: populate was called
PopulateCalled == pc \in {"populate", "done"} \/ (pc = "failed" /\ err.raised = "populate")

\* populate has ended, by returning or by raising
PopulateEnded == pc = "done" \/ (pc = "failed" /\ err.raised = "populate")

\* The host of a merged record was added as populate is described to add it
HostAdded(rec) ==
    LET name == NidName(rec.NID)
        prt == IF HasField(rec, "partitionName") /\ rec.partitionName # ""
               THEN <<"prt_", rec.partitionName>> ELSE <<>>
        labels == IF HasField(rec, "groupLabels") THEN Range(rec.groupLabels) ELSE {}
    IN /\ \E i \in 1..Len(ops) :
             ops[i].op = "add_host" /\ ops[i].name = name /\ ops[i].group = prt
       /\ \A g \in labels : \E i \in 1..Len(ops) :
             ops[i].op = "add_host" /\ ops[i].name = name /\ ops[i].group = <<"grp_", g>>
       /\ \A i \in 1..Len(ops) :
             (ops[i].op = "add_host" /\ ops[i].name = name /\ ops[i].group # <<>>)
                => ops[i].group \in {prt} \cup {<<"grp_", g>> : g \in labels}
       /\ \E i \in 1..Len(ops) :
             /\ ops[i].op = "set_variable"
             /\ ops[i].name = name
             /\ ops[i].key = "smd_component"
             /\ ops[i].value = rec

\* C1: when populate has run on the result of get_inventory without a
\* rejected group, every component of the mapping has its host nid<NID
\* padded to nid_length>, in prt_<partitionName> iff that is non-empty, in
\* grp_<label> for exactly its labels, with smd_component set to its record.
C1_EveryComponentBecomesHost ==
    (/\ Len(requests) = 2
     /\ PopulateEnded
     /\ err # GroupError
     /\ \A id \in DOMAIN inventory.components :
           /\ HasField(inventory.components[id], "partitionName")
           /\ HasField(inventory.components[id], "groupLabels"))
    => \A id \in DOMAIN inventory.components : HostAdded(inventory.components[id])

\* C7: a run that queries the directory service asks State/Components first
\* and memberships second, both with the configured filter, makes exactly
\* these two requests when it retrieves an inventory, and calls nothing on
\* the inventory before both have returned.
C7_TwoRequestsThenInventory ==
    /\ Len(requests) <= 2
    /\ Len(requests) >= 1 =>
          /\ requests[1].url[4] = "State/Components"
          /\ requests[1].params = opts.filter_by
    /\ Len(requests) = 2 =>
          /\ requests[2].url[4] = "memberships"
          /\ requests[2].params = requests[1].params
          /\ response # None
    /\ (Len(requests) >= 1 /\ PopulateCalled) =>
          /\ Len(requests) = 2
          /\ response # None
          /\ memberships # None
          /\ inventory # None
    /\ ops # <<>> =>
          \/ Len(requests) = 0 /\ attempt_to_read_cache
          \/ Len(requests) = 2 /\ memberships # None /\ inventory # None

\* Inventory calls made after both queries of the run returned
C7_Witness ==
    /\ Len(requests) = 2
    /\ ops # <<>>
    /\ opts.filter_by = [role |-> "Compute"]

HitAtStart == attempt_to_read_cache /\ cache_at_start[Key] # None
MissAtStart == attempt_to_read_cache /\ cache_at_start[Key] = None

GroupNames(inv) ==
    {<<"prt_", p>> : p \in inv.partitions} \cup {<<"grp_", g>> : g \in inv.groups}

\* C8: a run reads its cache entry at most once and writes it at most once
\* and touches no other entry; on a hit it makes no request, leaves the
\* cache as it was and populates from the cached value; on a miss it queries
\* and, having retrieved an inventory, has written it under its key once;
\* with the user's cache option off it neither reads nor writes the cache.
C8_CacheReadOnceWrittenOnMiss ==
    /\ cache_reads <= 1
    /\ cache_writes <= 1
    /\ \A k \in CacheKeys \ {Key} : _cache[k] = cache_at_start[k]
    /\ (opts.user_cache_setting /\ opts.cache) => cache_reads = 1
    /\ HitAtStart =>
          /\ requests = <<>>
          /\ _cache = cache_at_start
          /\ cache_writes = 0
          /\ PopulateCalled
          /\ inventory = cache_at_start[Key]
          /\ \A i \in 1..Len(ops) : ops[i].name \in GroupNames(cache_at_start[Key])
    /\ (MissAtStart /\ PopulateCalled) =>
          /\ Len(requests) = 2
          /\ cache_writes = 1
          /\ inventory # None
          /\ _cache = [cache_at_start EXCEPT ![Key] = inventory]
    /\ (MissAtStart /\ ~PopulateCalled) =>
          /\ Len(requests) >= 1 \/ pc = "get_inventory"
          /\ cache_writes = 0
          /\ _cache = cache_at_start
    /\ ~opts.user_cache_setting =>
          /\ cache_reads = 0
          /\ cache_writes = 0
          /\ _cache = cache_at_start

\* A hit: populate has issued calls for the cached inventory, no request made
C8_Witness ==
    /\ HitAtStart
    /\ PopulateEnded
    /\ ops # <<>>
    /\ requests = <<>>
    /\ cache_reads = 1

C10_FailedRetrievalLeavesNoTrace ==
    (pc = "failed" /\ err.raised \in {"get_smd", "get_inventory"}) =>
        /\ err # NoError
        /\ Len(requests) \in {1, 2}
        /\ \A i, j \in 1..Len(requests) : i # j => requests[i].url # requests[j].url
        /\ _cache = cache_at_start
        /\ cache_writes = 0
        /\ inventory = None
        /\ ops = <<>>

\* The merge fails in a run that was to refresh an existing cache entry
C10_Witness ==
    /\ pc = "failed"
    /\ err = MembershipFormatError
    /\ cache_needs_update
    /\ cache_at_start[Key] # None
    /\ Len(requests) = 2

====
